---------------------------- MODULE Spec2Model ----------------------------
(***************************************************************************)
(* A model of the rs-cache read engine: the sector header codec and its    *)
(* validation (src/src/sec.rs), the checksum table (src/src/checksum.rs),  *)
(* the archive reassembly loop that drives them, the compression envelope  *)
(* and the definition decoders (src/src/definition, src/src/definitions).  *)
(*                                                                         *)
(* The specifications share the variables below; each one drives one      *)
(* component and leaves the other components' variables at their idle      *)
(* values:                                                                 *)
(*   SpecHeader    SectorHeader::new / Sector::new on byte buffers         *)
(*   SpecValidate  SectorHeader::validate on headers and expected values   *)
(*   SpecArchive   read_archive over a block storage                       *)
(*   SpecChecksum  Checksum::push / validate_crcs / encode                 *)
(*   SpecRoundTrip a header written in the binary layout and read back     *)
(*   SpecCodec     codec::decode on envelopes                              *)
(*   SpecDecode    the definition decoders' decode_buffer                  *)
(***************************************************************************)
EXTENDS Integers, Sequences, FiniteSets, TLC

VARIABLES
    \* --- SectorHeader::new / Sector::new ---------------------------------
    buffer,          \* the input byte slice
    header_size,     \* the SectorHeaderSize the caller passes
    decoded,         \* what the call returned ("none" before the call)
    \* --- SectorHeader::validate ------------------------------------------
    header,          \* the SectorHeader validate is called on (self)
    expected,        \* the (archive_id, chunk, index_id) arguments
    validated,       \* the Result validate returned
    \* --- read_archive -----------------------------------------------------
    archive,         \* the archive locator {id, index_id, sector, length}
    storage,         \* sector number -> the block's header, once read
    layout,          \* the header layout selected for the archive
    current_sector,  \* the sector the next block is read from
    chunk,           \* the chunk number expected of the next block
    bytes_remaining, \* bytes still to be appended
    data,            \* the output buffer, as the slices appended so far
    visited,         \* history: the sectors read so far, in order
    read_result,     \* the Result of the read ("Running" while in the loop)
    \* --- Checksum ---------------------------------------------------------
    entries,         \* Checksum.entries
    pushed,          \* history: the entries handed to push, in call order
    crcs,            \* the slice handed to validate_crcs
    valid,           \* what validate_crcs returned
    encoded,         \* what encode handed to the codec and got back
    cs_pc,           \* "live" until encode has consumed the table
    \* --- codec::decode ---------------------------------------------------
    envelope,        \* the encoded buffer handed to decode
    with_revision,   \* whether the caller expects a trailing revision
    unwrapped,       \* what decode returned
    \* --- Definition::new / decode_buffer ---------------------------------
    decoder,         \* which decoder runs: "osrs_item", "osrs_npc" or "npc"
    input,           \* the buffer the reader is made over
    cursor,          \* the number of bytes the reader has consumed
    outcome,         \* "Running", or how decode_buffer ended
    item_def,        \* the stack_ids and stack_count of the definition
    dispatched       \* history: the opcodes matched so far and their places

secVars == <<buffer, header_size, decoded>>
valVars == <<header, expected, validated>>
arcVars == <<archive, storage, layout, current_sector, chunk, bytes_remaining,
             data, visited, read_result>>
csVars  == <<entries, pushed, crcs, valid, encoded, cs_pc>>
cdVars  == <<envelope, with_revision, unwrapped>>
decVars == <<decoder, input, cursor, outcome, item_def, dispatched>>
vars    == <<secVars, valVars, arcVars, csVars, cdVars, decVars>>

---------------------------------------------------------------------------
(* Constants of src/src/sec.rs.                                            *)

SECTOR_HEADER_SIZE == 8
SECTOR_EXPANDED_HEADER_SIZE == 10
SECTOR_DATA_SIZE == 512
SECTOR_EXPANDED_DATA_SIZE == 510
SECTOR_SIZE == SECTOR_HEADER_SIZE + SECTOR_DATA_SIZE
U16_MAX == 65535

Min(a, b) == IF a < b THEN a ELSE b

\* The result values. Every Result is a record of the same shape, so that
\* results of different kinds compare.
Ok == [kind |-> "Ok", got |-> 0, want |-> 0]
Err(k, g, w) == [kind |-> k, got |-> g, want |-> w]

---------------------------------------------------------------------------
(* SectorHeaderSize.                                                       *)

from_archive_ge(a) == IF a.id >= U16_MAX THEN "Expanded" ELSE "Normal"

\* SectorHeaderSize::from_archive
from_archive(a) == IF a.id > U16_MAX THEN "Expanded" ELSE "Normal"

sizes_same_data(hs) ==
    IF hs = "Normal"
      THEN <<SECTOR_HEADER_SIZE, SECTOR_DATA_SIZE>>
      ELSE <<SECTOR_EXPANDED_HEADER_SIZE, SECTOR_DATA_SIZE>>

sizes_swapped(hs) ==
    IF hs = "Normal"
      THEN <<SECTOR_DATA_SIZE, SECTOR_HEADER_SIZE>>
      ELSE <<SECTOR_EXPANDED_DATA_SIZE, SECTOR_EXPANDED_HEADER_SIZE>>

sizes_expanded_header_8(hs) ==
    IF hs = "Normal"
      THEN <<SECTOR_HEADER_SIZE, SECTOR_DATA_SIZE>>
      ELSE <<SECTOR_HEADER_SIZE, SECTOR_EXPANDED_DATA_SIZE>>

\* impl From<SectorHeaderSize> for (usize, usize): (header size, data size)
sizes(hs) ==
    IF hs = "Normal"
      THEN <<SECTOR_HEADER_SIZE, SECTOR_DATA_SIZE>>
      ELSE <<SECTOR_EXPANDED_HEADER_SIZE, SECTOR_EXPANDED_DATA_SIZE>>

---------------------------------------------------------------------------
(* The nom number parsers: each takes a byte slice and returns either      *)
(* [ok |-> TRUE, rest, value] or [ok |-> FALSE] (nom's Eof error of the    *)
(* `complete` parsers, raised when the slice is shorter than the number).  *)

Drop(s, n) == SubSeq(s, n + 1, Len(s))

RECURSIVE BeValue(_)
\* The big-endian value of a byte sequence.
BeValue(bytes) ==
    IF bytes = <<>> THEN 0
    ELSE BeValue(SubSeq(bytes, 1, Len(bytes) - 1)) * 256 + bytes[Len(bytes)]

be_uint_pad(s, n) ==
    IF Len(s) < n THEN [ok |-> TRUE, rest |-> <<>>, value |-> BeValue(s)]
    ELSE [ok |-> TRUE, rest |-> Drop(s, n), value |-> BeValue(SubSeq(s, 1, n))]

\* be_u8 / be_u16 / be_u24 / be_u32, by the number of bytes n
be_uint(s, n) ==
    IF Len(s) < n THEN [ok |-> FALSE, rest |-> s, value |-> 0]
    ELSE [ok |-> TRUE, rest |-> Drop(s, n), value |-> BeValue(SubSeq(s, 1, n))]

be_u8(s)  == be_uint(s, 1)
be_u16(s) == be_uint(s, 2)
be_u24(s) == be_uint(s, 3)
be_u32(s) == be_uint(s, 4)

\* nom's rest: the whole remaining input
rest(s) == [ok |-> TRUE, rest |-> <<>>, value |-> s]

---------------------------------------------------------------------------
(* SectorHeader and Sector.                                                *)

NoHeader == [archive_id |-> 0, chunk |-> 0, next |-> 0, index_id |-> 0]
ParseError == [ok |-> FALSE, rest |-> <<>>, header |-> NoHeader,
               data_block |-> <<>>]

SectorHeader_new_chunk_first(buf, hs) ==
    LET c == be_u16(buf)
        a == IF hs = "Normal" THEN be_u16(c.rest) ELSE be_u32(c.rest)
        n == be_u24(a.rest)
        i == be_u8(n.rest)
    IN  IF ~c.ok \/ ~a.ok \/ ~n.ok \/ ~i.ok THEN ParseError
        ELSE [ok |-> TRUE, rest |-> i.rest,
              header |-> [archive_id |-> a.value, chunk |-> c.value,
                          next |-> n.value, index_id |-> i.value],
              data_block |-> <<>>]

\* SectorHeader::new: the `?` after each parser returns the first error
SectorHeader_new(buf, hs) ==
    LET a == IF hs = "Normal" THEN be_u16(buf) ELSE be_u32(buf)
        c == be_u16(a.rest)
        n == be_u24(c.rest)
        i == be_u8(n.rest)
    IN  IF ~a.ok THEN ParseError
        ELSE IF ~c.ok THEN ParseError
        ELSE IF ~n.ok THEN ParseError
        ELSE IF ~i.ok THEN ParseError
        ELSE [ok |-> TRUE, rest |-> i.rest,
              header |-> [archive_id |-> a.value, chunk |-> c.value,
                          next |-> n.value, index_id |-> i.value],
              data_block |-> <<>>]

Sector_new_trimmed(buf, hs) ==
    LET h == SectorHeader_new(buf, hs)
    IN  IF ~h.ok THEN ParseError
        ELSE [ok |-> TRUE, rest |-> <<>>, header |-> h.header,
              data_block |-> SubSeq(h.rest, 1, Min(Len(h.rest), sizes(hs)[2]))]

\* Sector::new: the header, then all the remaining bytes as the data block
Sector_new(buf, hs) ==
    LET h == SectorHeader_new(buf, hs)
        d == rest(h.rest)
    IN  IF ~h.ok THEN ParseError
        ELSE [ok |-> TRUE, rest |-> <<>>, header |-> h.header,
              data_block |-> d.value]

validate_archive_only(self, archive_id, chunk_, index_id) ==
    IF self.archive_id # archive_id
      THEN Err("SectorArchiveMismatch", self.archive_id, archive_id)
    ELSE Ok

validate_chunk_first(self, archive_id, chunk_, index_id) ==
    IF self.chunk # chunk_
      THEN Err("SectorChunkMismatch", self.chunk, chunk_)
    ELSE IF self.archive_id # archive_id
      THEN Err("SectorArchiveMismatch", self.archive_id, archive_id)
    ELSE IF self.index_id # index_id
      THEN Err("SectorIndexMismatch", self.index_id, index_id)
    ELSE Ok

\* SectorHeader::validate
validate(self, archive_id, chunk_, index_id) ==
    IF self.archive_id # archive_id
      THEN Err("SectorArchiveMismatch", self.archive_id, archive_id)
    ELSE IF self.chunk # chunk_
      THEN Err("SectorChunkMismatch", self.chunk, chunk_)
    ELSE IF self.index_id # index_id
      THEN Err("SectorIndexMismatch", self.index_id, index_id)
    ELSE Ok

---------------------------------------------------------------------------
(* Idle values: what a component's variables hold before it is used, and   *)
(* throughout the specifications that do not drive it.                     *)

NotDecoded == [call |-> "none", result |-> ParseError]
NotValidated == [called |-> FALSE, archive_id |-> 0, chunk |-> 0, index_id |-> 0]
NoArchive == [id |-> 0, index_id |-> 0, sector |-> 0, length |-> 0]
NoStorage == [s \in {} |-> NoHeader]
NotStarted == Err("NotStarted", 0, 0)
Running == Err("Running", 0, 0)
NotCalled == [called |-> FALSE, result |-> FALSE]
NotUnwrapped == [called |-> FALSE, kind |-> "Ok", compression |-> 0,
                 taken |-> <<>>, payload |-> <<>>, revision |-> <<>>]
NoArray == [some |-> FALSE, values |-> <<>>]
NoItemDef == [stack_ids |-> NoArray, stack_count |-> NoArray]
NotEncoded == [called |-> FALSE, compression |-> "None", payload |-> <<>>,
               revision |-> "None", buffer |-> <<>>]

---------------------------------------------------------------------------
(* SpecHeader: SectorHeader::new and Sector::new applied to byte buffers.  *)

\* The longest of the exhaustively enumerated buffers.
MaxBuf == 11
\* The byte values of the enumerated buffers.
ByteVals == {2, 255}
\* The lengths of the block-sized buffers: one block, and more than one.
BlockLens == {SECTOR_SIZE, SECTOR_SIZE + 4}

HeaderSizes == {"Normal", "Expanded"}

\* Every buffer of at most MaxBuf bytes over ByteVals, and the same buffers
\* with 127 as the first byte, ...
ShortBuffers ==
    LET bs == UNION {[1..n -> ByteVals] : n \in 0..MaxBuf}
    IN  bs \cup {[b EXCEPT ![1] = 127] : b \in bs \ {<<>>}}
\* ... the buffer of test_parse_header, ...
TestBuffers == {<<0, 0, 0, 0, 0, 0, 2, 255>>}
\* ... and block-sized buffers with a byte pattern that differs by position.
BlockBuffers == {[i \in 1..n |-> (i * 7) % 256] : n \in BlockLens}

Buffers == ShortBuffers \cup TestBuffers \cup BlockBuffers

\* TLC's integers end at 2^31 - 1: an expanded archive id is drawn below
\* 2^31, that is with a first byte below 128.
InitHeader ==
    /\ buffer \in Buffers
    /\ header_size \in HeaderSizes
    /\ (header_size = "Expanded" /\ buffer # <<>>) => buffer[1] < 128
    /\ decoded = NotDecoded
    \* the other components are idle
    /\ header = NoHeader
    /\ expected = NotValidated
    /\ validated = Ok
    /\ archive = NoArchive
    /\ storage = NoStorage
    /\ layout = "Normal"
    /\ current_sector = 0
    /\ chunk = 0
    /\ bytes_remaining = 0
    /\ data = <<>>
    /\ visited = <<>>
    /\ read_result = NotStarted
    /\ entries = <<>>
    /\ pushed = <<>>
    /\ crcs = <<>>
    /\ valid = NotCalled
    /\ encoded = NotEncoded
    /\ cs_pc = "live"
    /\ envelope = <<>>
    /\ with_revision = FALSE
    /\ unwrapped = NotUnwrapped
    /\ decoder = "none"
    /\ input = <<>>
    /\ cursor = 0
    /\ outcome = "Idle"
    /\ item_def = NoItemDef
    /\ dispatched = <<>>

\* let (buffer, header) = SectorHeader::new(buffer, header_size)
CallSectorHeaderNew ==
    /\ decoded.call = "none"
    /\ decoded' = [call |-> "SectorHeader::new",
                   result |-> SectorHeader_new(buffer, header_size)]
    /\ UNCHANGED <<buffer, header_size>>

\* Sector::new(buffer, header_size)
CallSectorNew ==
    /\ decoded.call = "none"
    /\ decoded' = [call |-> "Sector::new",
                   result |-> Sector_new(buffer, header_size)]
    /\ UNCHANGED <<buffer, header_size>>

NextHeader ==
    \/ CallSectorHeaderNew /\ UNCHANGED <<valVars, arcVars, csVars, cdVars, decVars>>
    \/ CallSectorNew /\ UNCHANGED <<valVars, arcVars, csVars, cdVars, decVars>>

---------------------------------------------------------------------------
(* SpecValidate: SectorHeader::validate on a header and expected values.   *)

ArchiveIds == {0, 1, 65536}
Chunks == {0, 1, 2}
NextPtrs == {2}
IndexIds == {0, 255}

Headers == [archive_id : ArchiveIds, chunk : Chunks, next : NextPtrs,
            index_id : IndexIds]

InitValidate ==
    /\ header \in Headers
    /\ expected = NotValidated
    /\ validated = Ok
    \* the other components are idle
    /\ buffer = <<>>
    /\ header_size = "Normal"
    /\ decoded = NotDecoded
    /\ archive = NoArchive
    /\ storage = NoStorage
    /\ layout = "Normal"
    /\ current_sector = 0
    /\ chunk = 0
    /\ bytes_remaining = 0
    /\ data = <<>>
    /\ visited = <<>>
    /\ read_result = NotStarted
    /\ entries = <<>>
    /\ pushed = <<>>
    /\ crcs = <<>>
    /\ valid = NotCalled
    /\ encoded = NotEncoded
    /\ cs_pc = "live"
    /\ envelope = <<>>
    /\ with_revision = FALSE
    /\ unwrapped = NotUnwrapped
    /\ decoder = "none"
    /\ input = <<>>
    /\ cursor = 0
    /\ outcome = "Idle"
    /\ item_def = NoItemDef
    /\ dispatched = <<>>

\* header.validate(archive_id, chunk, index_id)
CallValidate ==
    /\ ~expected.called
    /\ \E a \in ArchiveIds, c \in Chunks, i \in IndexIds :
         /\ expected' = [called |-> TRUE, archive_id |-> a, chunk |-> c,
                         index_id |-> i]
         /\ validated' = validate(header, a, c, i)
    /\ UNCHANGED header

NextValidate == CallValidate /\ UNCHANGED <<secVars, arcVars, csVars, cdVars, decVars>>

---------------------------------------------------------------------------
(* SpecArchive: read_archive(source, locator).                             *)
(*                                                                         *)
(* The storage source is read-only during a read. A block's header is      *)
(* drawn when the block is first read and recorded in `storage`, so a      *)
(* block read again shows the same header. The header is the one           *)
(* Sector::new decodes from the block under the archive's layout.          *)
(* The output buffer is kept as the slices appended to it: the slice       *)
(* [sector |-> s, len |-> n] is the first n payload bytes of block s.      *)

\* The storage holds the blocks 0 .. MaxSectors - 1.
MaxSectors == 3
Sectors == 0..(MaxSectors - 1)
\* The next pointers a block may hold: every block, and one past the end.
BlockNexts == 0..MaxSectors
BlockChunks == 0..(MaxSectors - 1)

LocatorIds == {1, 65535, 65536}
LocatorIndexIds == {255}
\* Archive lengths of up to three blocks, around the payload sizes.
LocatorLengths == {0, 1, 510, 511, 512, 513, 1020, 1021, 1024, 1025}

\* The header values a block may turn out to hold: the archive's own ids or
\* foreign ones.
BlockHeaders(a) ==
    [archive_id : {a.id, 2}, chunk : BlockChunks, next : BlockNexts,
     index_id : {a.index_id, 0}]


CeilDiv(a, b) == (a + b - 1) \div b

\* Step 2: the expected block count.
ExpectedBlocks(a, hs) == CeilDiv(a.length, sizes(hs)[2])

\* The safety margin of the infinite-chain guard.
ChainMargin == 1

InitArchive ==
    /\ archive \in [id : LocatorIds, index_id : LocatorIndexIds,
                    sector : Sectors, length : LocatorLengths]
    /\ storage = NoStorage
    /\ layout = "Normal"
    /\ current_sector = 0
    /\ chunk = 0
    /\ bytes_remaining = 0
    /\ data = <<>>
    /\ visited = <<>>
    /\ read_result = NotStarted
    \* the other components are idle
    /\ buffer = <<>>
    /\ header_size = "Normal"
    /\ decoded = NotDecoded
    /\ header = NoHeader
    /\ expected = NotValidated
    /\ validated = Ok
    /\ entries = <<>>
    /\ pushed = <<>>
    /\ crcs = <<>>
    /\ valid = NotCalled
    /\ encoded = NotEncoded
    /\ cs_pc = "live"
    /\ envelope = <<>>
    /\ with_revision = FALSE
    /\ unwrapped = NotUnwrapped
    /\ decoder = "none"
    /\ input = <<>>
    /\ cursor = 0
    /\ outcome = "Idle"
    /\ item_def = NoItemDef
    /\ dispatched = <<>>

\* Steps 1 to 3: select the layout, seek to the start sector.
BeginRead ==
    /\ read_result = NotStarted
    /\ layout' = from_archive(archive)
    /\ current_sector' = archive.sector
    /\ chunk' = 0
    /\ bytes_remaining' = archive.length
    /\ read_result' = Running
    /\ UNCHANGED <<archive, storage, data, visited>>

\* The outcome of one loop iteration that read the block with header h.
ReadIteration(h) ==
    LET v == validate(h, archive.id, chunk, archive.index_id)
        n == Min(sizes(layout)[2], bytes_remaining)
    IN  IF v # Ok
          THEN \* step 4: a mismatch aborts the whole read
               /\ read_result' = v
               /\ UNCHANGED <<current_sector, chunk, bytes_remaining, data>>
          ELSE \* step 5: append the payload, cut to the bytes remaining
               /\ data' = Append(data, [sector |-> current_sector, len |-> n])
               /\ bytes_remaining' = bytes_remaining - n
               /\ IF bytes_remaining - n = 0
                    THEN \* step 6: stop, the next pointer is ignored
                         /\ read_result' = Ok
                         /\ UNCHANGED <<current_sector, chunk>>
                    ELSE \* step 7: follow the next pointer
                         /\ read_result' = Running
                         /\ current_sector' = h.next
                         /\ chunk' = chunk + 1

\* Steps 4 to 7: one iteration of the loop.
ReadBlock ==
    /\ read_result = Running
    /\ IF Len(visited) > ExpectedBlocks(archive, layout) + ChainMargin
         THEN \* the infinite-chain guard
              /\ read_result' = Err("ChainTooLong", Len(visited), 0)
              /\ UNCHANGED <<storage, visited, current_sector, chunk,
                             bytes_remaining, data>>
       ELSE IF current_sector \notin Sectors
         THEN \* the source has no block at this offset
              /\ read_result' = Err("EndOfChain", current_sector, 0)
              /\ UNCHANGED <<storage, visited, current_sector, chunk,
                             bytes_remaining, data>>
       ELSE /\ visited' = Append(visited, current_sector)
            /\ IF current_sector \in DOMAIN storage
                 THEN /\ UNCHANGED storage
                      /\ ReadIteration(storage[current_sector])
                 ELSE \E h \in BlockHeaders(archive) :
                        /\ storage' = (current_sector :> h) @@ storage
                        /\ ReadIteration(h)
    /\ UNCHANGED <<archive, layout>>

NextArchive ==
    \/ BeginRead /\ UNCHANGED <<secVars, valVars, csVars, cdVars, decVars>>
    \/ ReadBlock /\ UNCHANGED <<secVars, valVars, csVars, cdVars, decVars>>

---------------------------------------------------------------------------
(* SpecChecksum: Checksum::push, validate_crcs and encode.                 *)

\* The longest table built.
MaxEntries == 2
\* (TLC's integers end at 2^31 - 1, the largest crc drawn.)
CrcVals == {1234, 5678, 2147483647}
RevisionVals == {1, 2}
Entries == [crc : CrcVals, revision : RevisionVals]
\* The candidate slices: up to one element longer than the longest table.
CrcSlices == UNION {[1..n -> CrcVals] : n \in 0..(MaxEntries + 1)}


\* Checksum::push
push(es, e) == Append(es, e)

validate_crcs_zip(es, c) ==
    \A i \in 1..Min(Len(es), Len(c)) : es[i].crc = c[i]

\* Checksum::validate_crcs: the crcs of the entries, compared as slices
validate_crcs(es, c) ==
    LET owned_crcs == [i \in 1..Len(es) |-> es[i].crc]
    IN  owned_crcs = c

\* u32::to_be_bytes
to_be_bytes(x) ==
    <<(x \div 16777216) % 256, (x \div 65536) % 256, (x \div 256) % 256,
      x % 256>>

\* The codec encoder: the tag, the 4-byte length, the payload and the
\* optional 2-byte revision.
codec_encode(compression, payload, revision) ==
    <<IF compression = "None" THEN 0 ELSE 1>>
      \o to_be_bytes(Len(payload))
      \o payload
      \o (IF revision = "None" THEN <<>>
          ELSE <<(revision \div 256) % 256, revision % 256>>)

RECURSIVE encode_revision_first(_)
encode_revision_first(es) ==
    IF es = <<>> THEN <<>>
    ELSE to_be_bytes(es[1].revision) \o to_be_bytes(es[1].crc)
           \o encode_revision_first(Tail(es))

RECURSIVE encode_buffer(_)
\* Checksum::encode, the loop: crc then revision of every entry, in order
encode_buffer(es) ==
    IF es = <<>> THEN <<>>
    ELSE to_be_bytes(es[1].crc) \o to_be_bytes(es[1].revision)
           \o encode_buffer(Tail(es))

InitChecksum ==
    /\ entries = <<>>
    /\ pushed = <<>>
    /\ crcs = <<>>
    /\ valid = NotCalled
    /\ encoded = NotEncoded
    /\ cs_pc = "live"
    \* the other components are idle
    /\ buffer = <<>>
    /\ header_size = "Normal"
    /\ decoded = NotDecoded
    /\ header = NoHeader
    /\ expected = NotValidated
    /\ validated = Ok
    /\ archive = NoArchive
    /\ storage = NoStorage
    /\ layout = "Normal"
    /\ current_sector = 0
    /\ chunk = 0
    /\ bytes_remaining = 0
    /\ data = <<>>
    /\ visited = <<>>
    /\ read_result = NotStarted
    /\ envelope = <<>>
    /\ with_revision = FALSE
    /\ unwrapped = NotUnwrapped
    /\ decoder = "none"
    /\ input = <<>>
    /\ cursor = 0
    /\ outcome = "Idle"
    /\ item_def = NoItemDef
    /\ dispatched = <<>>

\* checksum.push(entry); the bool an earlier validate_crcs returned says
\* nothing of the new table and is dropped
Push ==
    /\ cs_pc = "live"
    /\ Len(entries) < MaxEntries
    /\ \E e \in Entries :
         /\ entries' = push(entries, e)
         /\ pushed' = Append(pushed, e)
    /\ crcs' = <<>>
    /\ valid' = NotCalled
    /\ UNCHANGED <<encoded, cs_pc>>

\* checksum.validate_crcs(&crcs)
ValidateCrcs ==
    /\ cs_pc = "live"
    /\ \E c \in CrcSlices :
         /\ crcs' = c
         /\ valid' = [called |-> TRUE, result |-> validate_crcs(entries, c)]
    /\ UNCHANGED <<entries, pushed, encoded, cs_pc>>

Encode_by_ref ==
    /\ cs_pc = "live"
    /\ LET buf == encode_buffer(entries)
       IN  encoded' = [called |-> TRUE, compression |-> "None",
                       payload |-> buf, revision |-> "None",
                       buffer |-> codec_encode("None", buf, "None")]
    /\ UNCHANGED <<entries, cs_pc, pushed, crcs, valid>>

\* checksum.encode(): takes self by value, the table is gone afterwards
Encode ==
    /\ cs_pc = "live"
    /\ LET buf == encode_buffer(entries)
       IN  encoded' = [called |-> TRUE, compression |-> "None",
                       payload |-> buf, revision |-> "None",
                       buffer |-> codec_encode("None", buf, "None")]
    /\ entries' = <<>>
    /\ cs_pc' = "consumed"
    /\ UNCHANGED <<pushed, crcs, valid>>

NextChecksum ==
    \/ Push /\ UNCHANGED <<secVars, valVars, arcVars, cdVars, decVars>>
    \/ ValidateCrcs /\ UNCHANGED <<secVars, valVars, arcVars, cdVars, decVars>>
    \/ Encode /\ UNCHANGED <<secVars, valVars, arcVars, cdVars, decVars>>

---------------------------------------------------------------------------
(* The specifications.                                                     *)

SpecHeader == InitHeader /\ [][NextHeader]_vars
SpecValidate == InitValidate /\ [][NextValidate]_vars
SpecArchive == InitArchive /\ [][NextArchive]_vars
SpecChecksum == InitChecksum /\ [][NextChecksum]_vars

---------------------------------------------------------------------------
(* Properties of SectorHeader::validate (SpecValidate).                    *)

\* C2: validate returns Ok exactly when the three header fields equal the
\* expected values; otherwise it returns the first mismatch in the order
\* archive, chunk, index, carrying the header's value first and the expected
\* value second.
ValidateFirstMismatch ==
    expected.called =>
      /\ validated = Ok <=>
           /\ header.archive_id = expected.archive_id
           /\ header.chunk = expected.chunk
           /\ header.index_id = expected.index_id
      /\ header.archive_id # expected.archive_id =>
           validated = [kind |-> "SectorArchiveMismatch",
                        got |-> header.archive_id,
                        want |-> expected.archive_id]
      /\ (header.archive_id = expected.archive_id
            /\ header.chunk # expected.chunk) =>
           validated = [kind |-> "SectorChunkMismatch",
                        got |-> header.chunk, want |-> expected.chunk]
      /\ (header.archive_id = expected.archive_id
            /\ header.chunk = expected.chunk
            /\ header.index_id # expected.index_id) =>
           validated = [kind |-> "SectorIndexMismatch",
                        got |-> header.index_id, want |-> expected.index_id]

\* A call where all three fields differ and the archive mismatch is reported.
ValidateAllDifferWitness ==
    /\ expected.called
    /\ header.archive_id # expected.archive_id
    /\ header.chunk # expected.chunk
    /\ header.index_id # expected.index_id
    /\ validated.kind = "SectorArchiveMismatch"

\* The header of the example: {archive_id: 1, chunk: 0, index_id: 255}.
ExampleHeader ==
    /\ header.archive_id = 1
    /\ header.chunk = 0
    /\ header.index_id = 255

ExpectedIs(a, c, i) ==
    /\ expected.called
    /\ expected.archive_id = a
    /\ expected.chunk = c
    /\ expected.index_id = i

\* C3 as stated: on the example header, validate(0, 1, 255) reports a chunk
\* mismatch and not an archive mismatch, and validate(1, 0, 0) reports an
\* index mismatch.
ExampleAsStated ==
    /\ (ExampleHeader /\ ExpectedIs(0, 1, 255)) =>
         validated.kind = "SectorChunkMismatch"
    /\ (ExampleHeader /\ ExpectedIs(1, 0, 0)) =>
         validated.kind = "SectorIndexMismatch"

\* C3 amended: on the example header, validate(0, 1, 255) reports an archive
\* mismatch (header 1, expected 0), since the archive id differs;
\* validate(1, 1, 255), where the archive matches, reports the chunk
\* mismatch; and validate(1, 0, 0) reports an index mismatch.
ExampleAmended ==
    /\ (ExampleHeader /\ ExpectedIs(0, 1, 255)) =>
         validated = [kind |-> "SectorArchiveMismatch", got |-> 1, want |-> 0]
    /\ (ExampleHeader /\ ExpectedIs(1, 1, 255)) =>
         validated = [kind |-> "SectorChunkMismatch", got |-> 0, want |-> 1]
    /\ (ExampleHeader /\ ExpectedIs(1, 0, 0)) =>
         validated = [kind |-> "SectorIndexMismatch", got |-> 255, want |-> 0]

\* The example header validated against (0, 1, 255).
ExampleWitness ==
    /\ ExampleHeader
    /\ ExpectedIs(0, 1, 255)
    /\ validated.kind = "SectorArchiveMismatch"

---------------------------------------------------------------------------
(* Properties of SectorHeader::new and Sector::new (SpecHeader).           *)

HeaderLen == IF header_size = "Normal" THEN 8 ELSE 10

\* C5: on a buffer at least as long as the layout's header, SectorHeader::new
\* reads big-endian, in order, the archive id (2 bytes Normal, 4 bytes
\* Expanded), the chunk (2 bytes), the next pointer (3 bytes) and the index
\* id (1 byte), and returns the input without its first 8 (Normal) or 10
\* (Expanded) bytes.
HeaderDecodeLayout ==
    (decoded.call = "SectorHeader::new" /\ Len(buffer) >= HeaderLen) =>
      LET r == decoded.result
          b == buffer
          o == IF header_size = "Normal" THEN 2 ELSE 4
      IN  /\ r.ok
          /\ header_size = "Normal" =>
               r.header.archive_id = b[1] * 256 + b[2]
          /\ header_size = "Expanded" =>
               r.header.archive_id =
                 b[1] * 16777216 + b[2] * 65536 + b[3] * 256 + b[4]
          /\ r.header.chunk = b[o + 1] * 256 + b[o + 2]
          /\ r.header.next = b[o + 3] * 65536 + b[o + 4] * 256 + b[o + 5]
          /\ r.header.index_id = b[o + 6]
          /\ Len(r.rest) = Len(b) - HeaderLen
          /\ \A i \in 1..Len(r.rest) : r.rest[i] = b[HeaderLen + i]

\* An expanded header decoded from a buffer with bytes left over, whose
\* archive id bytes differ.
HeaderDecodeWitness ==
    /\ decoded.call = "SectorHeader::new"
    /\ header_size = "Expanded"
    /\ decoded.result.ok
    /\ Len(decoded.result.rest) >= 1
    /\ buffer[3] # buffer[4]
    /\ buffer[1] # buffer[5]

\* C10: Sector::new returns as data_block every byte that follows the
\* header, untrimmed: the buffer length minus 8 (Normal) or 10 (Expanded)
\* bytes, for any buffer at least as long as the header, also one longer
\* than a 520-byte block.
SectorDataUntrimmed ==
    (decoded.call = "Sector::new" /\ Len(buffer) >= HeaderLen) =>
      LET r == decoded.result
      IN  /\ r.ok
          /\ Len(r.data_block) = Len(buffer) - HeaderLen
          /\ \A i \in 1..Len(r.data_block) :
               r.data_block[i] = buffer[HeaderLen + i]

\* A sector decoded from a buffer longer than one block.
SectorDataWitness ==
    /\ decoded.call = "Sector::new"
    /\ Len(buffer) > 520
    /\ decoded.result.ok
    /\ Len(decoded.result.data_block) > 512

---------------------------------------------------------------------------
(* Properties of read_archive (SpecArchive).                               *)

Started == read_result.kind # "NotStarted"
MismatchKinds ==
    {"SectorArchiveMismatch", "SectorChunkMismatch", "SectorIndexMismatch"}

\* C4: from_archive returns Expanded if and only if the archive id is
\* greater than 65535, and Normal otherwise; 65535 gives Normal and 65536
\* gives Expanded.
LayoutBoundary ==
    Started =>
      /\ layout = "Expanded" <=> archive.id > 65535
      /\ layout = "Normal" <=> archive.id <= 65535
      /\ archive.id = 65535 => layout = "Normal"
      /\ archive.id = 65536 => layout = "Expanded"

\* A read of archive 65536, the first id with the expanded layout.
LayoutBoundaryWitness ==
    /\ Started
    /\ archive.id = 65536
    /\ layout = "Expanded"

\* The payload bytes of one block of the archive being read.
PayloadSize == IF archive.id > 65535 THEN 510 ELSE 512

RECURSIVE SliceBytes(_)
\* The number of bytes of a buffer given as slices.
SliceBytes(slices) ==
    IF slices = <<>> THEN 0
    ELSE slices[1].len + SliceBytes(Tail(slices))

\* Block k of the read (k from 1) carries the archive's ids and chunk k - 1.
BlockValid(k) ==
    LET h == storage[visited[k]]
    IN  /\ h.archive_id = archive.id
        /\ h.chunk = k - 1
        /\ h.index_id = archive.index_id

VisitedSet == {visited[k] : k \in 1..Len(visited)}

\* C1: over a correctly chained archive read_archive returns exactly
\* byte_length bytes, the blocks' payloads in chunk order with the last block
\* cut to the bytes remaining, and it stops as soon as bytes_remaining is 0:
\* the final block's next pointer is not followed. A read ends in an error
\* only on a chain that is not correct: a block with a wrong id or chunk, or
\* a next pointer to a block the storage does not hold.
ReadReturnsByteLength ==
    /\ read_result = Ok =>
         LET n == Len(data)
         IN  /\ SliceBytes(data) = archive.length
             /\ bytes_remaining = 0
             /\ n >= 1
             /\ Len(visited) = n
             /\ visited[1] = archive.sector
             /\ \A k \in 1..n : data[k].sector = visited[k] /\ BlockValid(k)
             /\ \A k \in 1..(n - 1) :
                  /\ data[k].len = PayloadSize
                  /\ visited[k + 1] = storage[visited[k]].next
             /\ data[n].len = archive.length - (n - 1) * PayloadSize
             /\ data[n].len <= PayloadSize
             /\ n > 1 => data[n].len >= 1
             \* nothing but the n blocks was read
             /\ DOMAIN storage = VisitedSet
    /\ read_result.kind \in
         {"NotStarted", "Running", "Ok", "EndOfChain"} \cup MismatchKinds
    /\ read_result.kind = "EndOfChain" => current_sector \notin Sectors
    /\ read_result.kind \in MismatchKinds => ~BlockValid(Len(visited))

\* A two-block archive read to its end, whose second block is cut short and
\* links to a further block, which is not read.
ReadStopsWitness ==
    /\ read_result = Ok
    /\ Len(visited) = 2
    /\ data[2].len < PayloadSize
    /\ storage[visited[2]].next \in Sectors
    /\ storage[visited[2]].next \notin DOMAIN storage
    /\ archive.id = 65536

Revisited == \E i, j \in 1..Len(visited) : i < j /\ visited[i] = visited[j]

\* Some block read links back to itself or to a block read before it.
LinksBack ==
    \E i, j \in 1..Len(visited) :
       j <= i /\ storage[visited[i]].next = visited[j]

\* C8 as stated: a read of a chain whose next pointer leads back to a block
\* already visited in the same read ends with an error.
CycleAlwaysFails ==
    (read_result.kind \notin {"NotStarted", "Running"} /\ LinksBack) =>
      read_result # Ok

\* C8 amended: a read that follows a next pointer back to a block already
\* visited ends there with a chunk mismatch; no read returns a buffer built
\* from a block visited twice; and no read loops forever: it reads at most
\* ceil(byte_length / payload size) blocks, or one block for an empty
\* archive. A next pointer of the final block that leads back is not
\* followed, and that read succeeds.
CycleFollowedFails ==
    /\ Revisited => read_result.kind = "SectorChunkMismatch"
    /\ read_result = Ok =>
         \A i, j \in 1..Len(data) : i # j => data[i].sector # data[j].sector
    /\ Len(visited) * PayloadSize < archive.length + PayloadSize
         \/ Len(visited) <= 1

\* A read that went from block to block and came back to its first block.
CycleWitness ==
    /\ Len(visited) = 3
    /\ visited[3] = visited[1]
    /\ read_result.kind = "SectorChunkMismatch"

\* C9, the states: the payload of block k is appended only after block k was
\* validated against {id, k, index_id}; a mismatch ends the read with the
\* failing block's mismatch, its payload not appended.
ValidatedBeforeAppend ==
    /\ \A k \in 1..Len(data) : data[k].sector = visited[k] /\ BlockValid(k)
    /\ read_result.kind \in {"Running", "Ok"} => Len(data) = Len(visited)
    /\ read_result.kind \in MismatchKinds =>
         LET k == Len(visited)
             h == storage[visited[k]]
         IN  /\ Len(data) = k - 1
             /\ read_result.kind = "SectorArchiveMismatch" =>
                  /\ h.archive_id # archive.id
                  /\ read_result.got = h.archive_id
                  /\ read_result.want = archive.id
             /\ read_result.kind = "SectorChunkMismatch" =>
                  /\ h.chunk # k - 1
                  /\ read_result.got = h.chunk
                  /\ read_result.want = k - 1
             /\ read_result.kind = "SectorIndexMismatch" =>
                  /\ h.index_id # archive.index_id
                  /\ read_result.got = h.index_id
                  /\ read_result.want = archive.index_id

\* C9, the steps: once the read has ended, with a mismatch or otherwise, no
\* further block is read and nothing is appended.
NoReadAfterEnd ==
    read_result.kind \notin {"NotStarted", "Running"} =>
      UNCHANGED <<visited, storage, data, read_result>>

\* C9: during read_archive the k-th block read is validated against
\* {locator.id, k, locator.index_id} before any of its payload is appended;
\* the first block that fails validation aborts the whole read with that
\* block's mismatch kind, no buffer is returned and no further block is read.
MismatchAbortsRead == []ValidatedBeforeAppend /\ [][NoReadAfterEnd]_vars

\* A read whose second block carries a foreign index id.
MismatchAbortsWitness ==
    /\ read_result.kind = "SectorIndexMismatch"
    /\ Len(visited) = 2
    /\ Len(data) = 1

---------------------------------------------------------------------------
(* Properties of Checksum (SpecChecksum).                                  *)

\* C6: after any sequence of pushes, validate_crcs(C) is true if and only
\* if C has as many elements as entries were pushed and C[i] is the crc of
\* the i-th pushed entry for every i.
ValidateCrcsExact ==
    valid.called =>
      (valid.result <=>
         /\ Len(crcs) = Len(pushed)
         /\ \A i \in 1..Len(pushed) : crcs[i] = pushed[i].crc)

\* A candidate that agrees with a two-entry table but has an extra element.
ValidateCrcsWitness ==
    /\ valid.called
    /\ Len(pushed) = 2
    /\ Len(crcs) = 3
    /\ crcs[1] = pushed[1].crc
    /\ crcs[2] = pushed[2].crc
    /\ pushed[1].crc # pushed[2].crc
    /\ ~valid.result

\* C7: encode hands the codec, with compression none and no revision, a
\* payload of 8 * n bytes: per entry, in insertion order, the 4-byte
\* big-endian crc and the 4-byte big-endian revision; for the entries
\* [(1234, 1), (5678, 2)] the payload is
\* 00 00 04 D2 00 00 00 01 00 00 16 2E 00 00 00 02.
Be32At(b, o) ==
    b[o + 1] * 16777216 + b[o + 2] * 65536 + b[o + 3] * 256 + b[o + 4]

EncodePayload ==
    encoded.called =>
      LET b == encoded.payload
      IN  /\ encoded.compression = "None"
          /\ encoded.revision = "None"
          /\ Len(b) = 8 * Len(pushed)
          /\ \A i \in 1..Len(b) : b[i] \in 0..255
          /\ \A i \in 1..Len(pushed) :
               /\ Be32At(b, 8 * (i - 1)) = pushed[i].crc
               /\ Be32At(b, 8 * (i - 1) + 4) = pushed[i].revision
          /\ pushed = <<[crc |-> 1234, revision |-> 1],
                        [crc |-> 5678, revision |-> 2]>> =>
               b = <<0, 0, 4, 210, 0, 0, 0, 1, 0, 0, 22, 46, 0, 0, 0, 2>>

\* The table of the example, encoded.
EncodePayloadWitness ==
    /\ encoded.called
    /\ pushed = <<[crc |-> 1234, revision |-> 1],
                  [crc |-> 5678, revision |-> 2]>>
    /\ Len(encoded.payload) = 16

---------------------------------------------------------------------------
(* Further properties of the sector layout, SectorHeader::new, read_archive *)
(* and Checksum.                                                           *)

\* C11: for both layouts the header size plus the payload size of the
\* SectorHeaderSize conversion is the one block size SECTOR_SIZE = 520:
\* Normal is 8 + 512 and Expanded is 10 + 510.
BlockSizeShared ==
    Started =>
      /\ sizes(layout)[1] + sizes(layout)[2] = SECTOR_SIZE
      /\ SECTOR_SIZE = 520
      /\ layout = "Normal" => sizes(layout) = <<8, 512>>
      /\ layout = "Expanded" => sizes(layout) = <<10, 510>>

\* A read under the expanded layout, whose sizes add up to the block size.
BlockSizeWitness ==
    /\ Started
    /\ layout = "Expanded"
    /\ sizes(layout)[1] + sizes(layout)[2] = 520
    /\ read_result = Ok

\* C15: SectorHeader::new fails, and returns no header, whenever the buffer
\* holds fewer bytes than the layout's header needs (fewer than 8 for
\* Normal, fewer than 10 for Expanded); Sector::new fails in the same cases.
ShortBufferFails ==
    (decoded.call # "none" /\ Len(buffer) < HeaderLen) =>
      /\ ~decoded.result.ok
      /\ decoded.result = ParseError
      /\ decoded.result.header = NoHeader
      /\ decoded.result.data_block = <<>>

\* Sector::new on a buffer that holds the nine leading bytes of an expanded
\* header.
ShortBufferWitness ==
    /\ decoded.call = "Sector::new"
    /\ header_size = "Expanded"
    /\ Len(buffer) = 9
    /\ ~decoded.result.ok

\* The number of blocks a read of the archive is expected to take.
ExpectedCount == (archive.length + PayloadSize - 1) \div PayloadSize

\* C17, the steps: for byte_length > 0, every loop iteration that appends
\* lowers bytes_remaining by at least one.
IterationLowersRemaining ==
    (archive.length > 0 /\ read_result = Running /\ data' # data) =>
      /\ bytes_remaining' < bytes_remaining
      /\ bytes_remaining' >= 0

\* C17, the states: at most ceil(byte_length / payload_size) blocks are read
\* and the infinite-chain guard error is not produced.
BlocksReadBounded ==
    (Started /\ archive.length > 0) =>
      /\ Len(visited) <= ExpectedCount
      /\ read_result.kind # "ChainTooLong"
      /\ read_result = Running => bytes_remaining > 0

NoCallAfterEncode == encoded.called => UNCHANGED csVars

\* C14, the states: before encode, validate_crcs can be called; after it,
\* neither validate_crcs nor encode can.
ValidateUntilEncode ==
    /\ ~encoded.called => ENABLED ValidateCrcs
    /\ encoded.called => ~ENABLED ValidateCrcs /\ ~ENABLED Encode
    /\ encoded.called <=> cs_pc = "consumed"

\* C14: encode consumes the table: once encode has been called on a table,
\* neither validate_crcs nor a second encode can be performed on it, while
\* before encode validate_crcs may be called any number of times.
EncodeConsumes == []ValidateUntilEncode /\ [][NoCallAfterEncode]_vars

\* A table that was validated and then encoded.
EncodeConsumesWitness ==
    /\ encoded.called
    /\ valid.called
    /\ valid.result
    /\ Len(pushed) = 2

---------------------------------------------------------------------------
(* SpecRoundTrip: a header written in the sector block's binary layout and *)
(* read back by SectorHeader::new.                                         *)

RECURSIVE be_bytes(_, _)
\* The n-byte big-endian form of x.
be_bytes(x, n) ==
    IF n = 0 THEN <<>>
    ELSE be_bytes(x \div 256, n - 1) \o <<x % 256>>

\* The header in the block layout: the archive id (2 bytes Normal, 4 bytes
\* Expanded), the chunk (2 bytes), the next pointer (3 bytes), the index id
\* (1 byte), all big-endian.
write_header(h, hs) ==
    be_bytes(h.archive_id, IF hs = "Normal" THEN 2 ELSE 4)
      \o be_bytes(h.chunk, 2) \o be_bytes(h.next, 3) \o be_bytes(h.index_id, 1)

\* Whether the archive id fits the width the layout gives it.
Fits(h, hs) == hs = "Normal" => h.archive_id <= U16_MAX

WrittenArchiveIds == {0, 1, 258, 65535, 65536, 16909060, 2147483647}
WrittenChunks == {0, 1, 258, 65535}
WrittenNexts == {0, 2, 66051, 16777215}
WrittenIndexIds == {0, 2, 255}
WrittenHeaders ==
    [archive_id : WrittenArchiveIds, chunk : WrittenChunks,
     next : WrittenNexts, index_id : WrittenIndexIds]

InitRoundTrip ==
    /\ header \in WrittenHeaders
    /\ header_size \in HeaderSizes
    /\ Fits(header, header_size)
    /\ buffer = <<>>
    /\ decoded = NotDecoded
    \* the other components are idle
    /\ expected = NotValidated
    /\ validated = Ok
    /\ archive = NoArchive
    /\ storage = NoStorage
    /\ layout = "Normal"
    /\ current_sector = 0
    /\ chunk = 0
    /\ bytes_remaining = 0
    /\ data = <<>>
    /\ visited = <<>>
    /\ read_result = NotStarted
    /\ entries = <<>>
    /\ pushed = <<>>
    /\ crcs = <<>>
    /\ valid = NotCalled
    /\ encoded = NotEncoded
    /\ cs_pc = "live"
    /\ envelope = <<>>
    /\ with_revision = FALSE
    /\ unwrapped = NotUnwrapped
    /\ decoder = "none"
    /\ input = <<>>
    /\ cursor = 0
    /\ outcome = "Idle"
    /\ item_def = NoItemDef
    /\ dispatched = <<>>

\* The header is laid out as the first bytes of a block.
WriteHeader ==
    /\ buffer = <<>>
    /\ buffer' = write_header(header, header_size)
    /\ UNCHANGED <<header_size, decoded>>

\* SectorHeader::new(buffer, header_size) on the written bytes
ReadHeaderBack ==
    /\ buffer # <<>>
    /\ decoded.call = "none"
    /\ decoded' = [call |-> "SectorHeader::new",
                   result |-> SectorHeader_new(buffer, header_size)]
    /\ UNCHANGED <<buffer, header_size>>

NextRoundTrip ==
    \/ WriteHeader /\ UNCHANGED <<valVars, arcVars, csVars, cdVars, decVars>>
    \/ ReadHeaderBack
         /\ UNCHANGED <<valVars, arcVars, csVars, cdVars, decVars>>

SpecRoundTrip == InitRoundTrip /\ [][NextRoundTrip]_vars

\* C13: for either layout and every header whose archive id fits the
\* layout's width, SectorHeader::new applied to the header written in the
\* binary layout succeeds and returns the original archive_id, chunk and
\* index_id (and the original next pointer), with no bytes left over.
HeaderRoundTrip ==
    decoded.call = "SectorHeader::new" =>
      /\ Len(buffer) = HeaderLen
      /\ decoded.result.ok
      /\ decoded.result.header.archive_id = header.archive_id
      /\ decoded.result.header.chunk = header.chunk
      /\ decoded.result.header.index_id = header.index_id
      /\ decoded.result.header.next = header.next
      /\ decoded.result.rest = <<>>

HeaderRoundTripWitness ==
    /\ decoded.call = "SectorHeader::new"
    /\ decoded.result.ok
    /\ header_size = "Expanded"
    /\ header.archive_id = 16909060
    /\ header.chunk = 258
    /\ header.index_id = 2
    /\ buffer = <<1, 2, 3, 4, 1, 2, 1, 2, 3, 2>>
    /\ decoded.result.header = header

---------------------------------------------------------------------------
(* SpecCodec: codec::decode on an envelope.                                *)
(*                                                                         *)
(* An envelope is the tag, the 4-byte big-endian length, the payload bytes *)
(* and an optional 2-byte revision. decode reads the tag, reads the        *)
(* length, reads exactly that many payload bytes, decompresses if the tag  *)
(* requires it and reads the revision if the caller expects one. What the  *)
(* decompression library makes of the bytes is an input of the model.      *)

\* The tags: 0 is none, 1 and 2 are the two compression algorithms.
KnownTags == {0, 1, 2}

DecodeFailure(kind, tag) ==
    [called |-> TRUE, kind |-> kind, compression |-> tag, taken |-> <<>>,
     payload |-> <<>>, revision |-> <<>>]

codec_decode_short_read(buf, has_revision, d) ==
    LET t == be_u8(buf)
        l == be_u32(t.rest)
        n == Min(l.value, Len(l.rest))
        taken == SubSeq(l.rest, 1, n)
        after == Drop(l.rest, n)
        r == be_u16(after)
    IN  IF ~t.ok THEN DecodeFailure("Truncated", 0)
        ELSE IF ~l.ok THEN DecodeFailure("Truncated", t.value)
        ELSE IF t.value \notin KnownTags
          THEN DecodeFailure("UnknownCompression", t.value)
        ELSE IF t.value # 0 /\ ~d.ok
          THEN DecodeFailure("DecompressionFailed", t.value)
        ELSE IF has_revision /\ ~r.ok
          THEN DecodeFailure("Truncated", t.value)
        ELSE [called |-> TRUE, kind |-> "Ok", compression |-> t.value,
              taken |-> taken,
              payload |-> IF t.value = 0 THEN taken ELSE d.bytes,
              revision |-> IF has_revision THEN <<r.value>> ELSE <<>>]

\* codec::decode(buffer), with the outcome d of the decompression library
codec_decode(buf, has_revision, d) ==
    LET t == be_u8(buf)
        l == be_u32(t.rest)
        taken == SubSeq(l.rest, 1, l.value)
        after == Drop(l.rest, l.value)
        r == be_u16(after)
    IN  IF ~t.ok THEN DecodeFailure("Truncated", 0)
        ELSE IF ~l.ok THEN DecodeFailure("Truncated", t.value)
        ELSE IF Len(l.rest) < l.value
          THEN DecodeFailure("Truncated", t.value)
        ELSE IF t.value \notin KnownTags
          THEN DecodeFailure("UnknownCompression", t.value)
        ELSE IF t.value # 0 /\ ~d.ok
          THEN DecodeFailure("DecompressionFailed", t.value)
        ELSE IF has_revision /\ ~r.ok
          THEN DecodeFailure("Truncated", t.value)
        ELSE [called |-> TRUE, kind |-> "Ok", compression |-> t.value,
              taken |-> taken,
              payload |-> IF t.value = 0 THEN taken ELSE d.bytes,
              revision |-> IF has_revision THEN <<r.value>> ELSE <<>>]

MaxPayload == 3
EnvTags == {0, 1, 3}
EnvBytes == {7, 200}
DeclaredLens == 0..(MaxPayload + 1) \cup {258}
EnvTails == UNION {[1..n -> EnvBytes] : n \in 0..MaxPayload}
ShortEnvelopes == {SubSeq(<<t, 0, 0, 0, 2>>, 1, k) : t \in EnvTags, k \in 0..4}
Envelopes ==
    {<<t>> \o to_be_bytes(n) \o p : t \in EnvTags, n \in DeclaredLens,
                                    p \in EnvTails}
      \cup ShortEnvelopes
DecompressOutcomes ==
    {[ok |-> FALSE, bytes |-> <<>>], [ok |-> TRUE, bytes |-> <<>>],
     [ok |-> TRUE, bytes |-> <<5, 6, 7, 8, 9>>]}

InitCodec ==
    /\ envelope \in Envelopes
    /\ with_revision \in BOOLEAN
    /\ unwrapped = NotUnwrapped
    \* the other components are idle
    /\ buffer = <<>>
    /\ header_size = "Normal"
    /\ decoded = NotDecoded
    /\ header = NoHeader
    /\ expected = NotValidated
    /\ validated = Ok
    /\ archive = NoArchive
    /\ storage = NoStorage
    /\ layout = "Normal"
    /\ current_sector = 0
    /\ chunk = 0
    /\ bytes_remaining = 0
    /\ data = <<>>
    /\ visited = <<>>
    /\ read_result = NotStarted
    /\ entries = <<>>
    /\ pushed = <<>>
    /\ crcs = <<>>
    /\ valid = NotCalled
    /\ encoded = NotEncoded
    /\ cs_pc = "live"
    /\ decoder = "none"
    /\ input = <<>>
    /\ cursor = 0
    /\ outcome = "Idle"
    /\ item_def = NoItemDef
    /\ dispatched = <<>>

\* codec::decode(&envelope)
Decode ==
    /\ ~unwrapped.called
    /\ \E d \in DecompressOutcomes :
         unwrapped' = codec_decode(envelope, with_revision, d)
    /\ UNCHANGED <<envelope, with_revision>>

NextCodec ==
    Decode /\ UNCHANGED <<secVars, valVars, arcVars, csVars, decVars>>

SpecCodec == InitCodec /\ [][NextCodec]_vars

\* The length the envelope declares and the bytes that follow the length.
Declared == BeValue(SubSeq(envelope, 2, 5))
Following == Drop(envelope, 5)

\* C12: decode of an envelope whose declared length is greater than the
\* number of bytes that follow the length fails with a truncation error and
\* returns nothing; whenever decode succeeds it has taken exactly the
\* declared number of payload bytes, the first that follow the length, and
\* with compression none these bytes are the payload returned.
TruncatedEnvelopeFails ==
    (unwrapped.called /\ Len(envelope) >= 5) =>
      /\ Declared > Len(Following) =>
           /\ unwrapped.kind = "Truncated"
           /\ unwrapped.taken = <<>>
           /\ unwrapped.payload = <<>>
           /\ unwrapped.revision = <<>>
      /\ unwrapped.kind = "Ok" =>
           /\ Len(unwrapped.taken) = Declared
           /\ unwrapped.taken = SubSeq(Following, 1, Declared)
           /\ unwrapped.compression = 0 => unwrapped.payload = unwrapped.taken

TruncatedEnvelopeWitness ==
    /\ unwrapped.called
    /\ envelope = <<0, 0, 0, 0, 3, 7, 200>>
    /\ Declared = 3
    /\ Len(Following) = 2
    /\ unwrapped.kind = "Truncated"

---------------------------------------------------------------------------
(* SpecDecode: Definition::new and the decode_buffer loops of the osrs     *)
(* item decoder, the osrs npc decoder and the legacy npc decoder.          *)
(*                                                                         *)
(* The reader is a BufReader over the input slice; `cursor` counts the     *)
(* bytes its successful reads have consumed. A read returns                *)
(* [ok |-> TRUE, pos] with the position after it, or [ok |-> FALSE, pos]   *)
(* (io::ErrorKind::UnexpectedEof) with the position where it began.        *)

Eof(pos) == [ok |-> FALSE, pos |-> pos]
Read(pos) == [ok |-> TRUE, pos |-> pos]

\* read_u8 / read_i8 / read_u16 / read_u24 / read_i32, and runs of them
read_fixed(buf, pos, n) ==
    IF Len(buf) - pos < n THEN Eof(pos) ELSE Read(pos + n)

\* The u16 a read_u16 at pos returns.
U16At(buf, pos) == buf[pos + 1] * 256 + buf[pos + 2]

RECURSIVE read_string(_, _)
\* read_string: the bytes up to and including the terminating 0
read_string(buf, pos) ==
    IF pos >= Len(buf) THEN Eof(pos)
    ELSE IF buf[pos + 1] = 0 THEN Read(pos + 1)
    ELSE read_string(buf, pos + 1)

\* let len = read_u8()?; for _ in 0..len { `width` bytes of reads }
read_counted(buf, pos, width) ==
    IF Len(buf) - pos < 1 THEN Eof(pos)
    ELSE read_fixed(buf, pos + 1, buf[pos + 1] * width)

\* opcodes 106 and 118: `prefix` bytes of u16 reads, then
\* let len = read_u8()?; for _ in 0..=len { read_u16()? }
read_configs(buf, pos, prefix) ==
    LET p == read_fixed(buf, pos, prefix)
    IN  IF ~p.ok THEN p
        ELSE IF Len(buf) - p.pos < 1 THEN Eof(p.pos)
        ELSE read_fixed(buf, p.pos + 1, (buf[p.pos + 1] + 1) * 2)

RECURSIVE read_entries(_, _, _)
\* the entries of opcode 249: is_string (u8), key (u24), then a string or
\* an i32
read_entries(buf, pos, n) ==
    IF n = 0 THEN Read(pos)
    ELSE LET k == read_fixed(buf, pos, 4)
             v == IF buf[pos + 1] = 1 THEN read_string(buf, k.pos)
                  ELSE read_fixed(buf, k.pos, 4)
         IN  IF ~k.ok THEN k
             ELSE IF ~v.ok THEN v
             ELSE read_entries(buf, v.pos, n - 1)

\* opcode 249: let len = read_u8()?; for _ in 0..len { an entry }
read_parameters(buf, pos) ==
    IF Len(buf) - pos < 1 THEN Eof(pos)
    ELSE read_entries(buf, pos + 1, buf[pos + 1])

\* read_smart / read_smart_u16: one byte below 128, or two bytes holding
\* the value plus 32768
read_smart(buf, pos) ==
    IF Len(buf) - pos < 1 THEN [ok |-> FALSE, pos |-> pos, value |-> 0]
    ELSE IF buf[pos + 1] < 128
      THEN [ok |-> TRUE, pos |-> pos + 1, value |-> buf[pos + 1]]
    ELSE IF Len(buf) - pos < 2 THEN [ok |-> FALSE, pos |-> pos, value |-> 0]
    ELSE [ok |-> TRUE, pos |-> pos + 2, value |-> U16At(buf, pos) - 32768]

\* What one loop iteration leaves: "Running" (the loop goes on),
\* "Definition" (break, then Ok(definition)), "UnexpectedEof" (a `?`
\* returned the reader's error), "UnknownOpcode" (the panic of
\* unreachable!() in the last arm) or "Overflow" (the panic of an
\* arithmetic overflow); the reader's position; the definition built so
\* far.
Step(end, pos, def) == [end |-> end, pos |-> pos, def |-> def]

\* The arm's reads are done: go on, or return the error of the failed read.
Arm(r, def) ==
    {Step(IF r.ok THEN "Running" ELSE "UnexpectedEof", r.pos, def)}

\* [0; 10]
Zeros == [i \in 1..10 |-> 0]

\* osrs item opcodes 100..=109. Both arrays are set to Some([0; 10]); each
\* match then binds the array by value (`Some(mut stack_ids)` on a Copy
\* array), so the element is written in a temporary and the field keeps
\* the zeros.
stack_arm(buf, pos, opcode, def) ==
    LET reset == [some |-> TRUE, values |-> Zeros]
        a == read_fixed(buf, pos, 2)
        b == read_fixed(buf, a.pos, 2)
        stack_ids == [Zeros EXCEPT ![opcode - 100 + 1] = U16At(buf, pos)]
        stack_count == [Zeros EXCEPT ![opcode - 100 + 1] = U16At(buf, a.pos)]
        after == [stack_ids |-> reset, stack_count |-> reset]
    IN  IF ~a.ok THEN Arm(a, after)
        ELSE IF ~b.ok THEN Arm(b, after)
        ELSE Arm(b, after)

ItemNoOperand == {11, 16, 65}
ItemU8 == {13, 14, 27, 42, 113, 114, 115}
ItemU16 == {1, 4, 5, 6, 7, 8, 24, 26, 75, 78, 79, 90, 91, 92, 93, 94, 95, 97,
            98, 110, 111, 112, 139, 140, 148, 149}
ItemU16U8 == {23, 25}
ItemI32 == {12}
ItemString == {2, 9} \cup 30..39
ItemPairs == {40, 41}
ItemStack == 100..109
ItemParams == {249}

\* osrs item decode_buffer: `match opcode { ... }` after the opcode is read
item_match(buf, pos, opcode, def) ==
    IF opcode = 0 THEN {Step("Definition", pos, def)}
    ELSE IF opcode \in ItemNoOperand THEN Arm(Read(pos), def)
    ELSE IF opcode \in ItemU8 THEN Arm(read_fixed(buf, pos, 1), def)
    ELSE IF opcode \in ItemU16 THEN Arm(read_fixed(buf, pos, 2), def)
    ELSE IF opcode \in ItemU16U8 THEN Arm(read_fixed(buf, pos, 3), def)
    ELSE IF opcode \in ItemI32 THEN Arm(read_fixed(buf, pos, 4), def)
    ELSE IF opcode \in ItemString THEN Arm(read_string(buf, pos), def)
    ELSE IF opcode \in ItemPairs THEN Arm(read_counted(buf, pos, 4), def)
    ELSE IF opcode \in ItemStack THEN stack_arm(buf, pos, opcode, def)
    ELSE IF opcode \in ItemParams THEN Arm(read_parameters(buf, pos), def)
    ELSE {Step("UnknownOpcode", pos, def)}

NpcNoOperand == {93, 99, 107, 109, 111}
NpcU8 == {12, 100, 101}
NpcU16 == {13, 14, 15, 16, 95, 97, 98, 102, 103}
NpcU16x4 == {17}
NpcString == {2} \cup 30..34
NpcList == {1, 60}
NpcPairs == {40, 41}
NpcParams == {249}

\* legacy npc decode_buffer: `match opcode { ... }` after the opcode is read
npc_match(buf, pos, opcode, def) ==
    IF opcode = 0 THEN {Step("Definition", pos, def)}
    ELSE IF opcode \in NpcNoOperand THEN Arm(Read(pos), def)
    ELSE IF opcode \in NpcU8 THEN Arm(read_fixed(buf, pos, 1), def)
    ELSE IF opcode \in NpcU16 THEN Arm(read_fixed(buf, pos, 2), def)
    ELSE IF opcode \in NpcU16x4 THEN Arm(read_fixed(buf, pos, 8), def)
    ELSE IF opcode \in NpcString THEN Arm(read_string(buf, pos), def)
    ELSE IF opcode \in NpcList THEN Arm(read_counted(buf, pos, 2), def)
    ELSE IF opcode \in NpcPairs THEN Arm(read_counted(buf, pos, 4), def)
    ELSE IF opcode = 106 THEN Arm(read_configs(buf, pos, 4), def)
    ELSE IF opcode = 118 THEN Arm(read_configs(buf, pos, 6), def)
    ELSE IF opcode \in NpcParams THEN Arm(read_parameters(buf, pos), def)
    ELSE {Step("UnknownOpcode", pos, def)}

RECURSIVE bit_length(_)
\* while bitfield_clone != 0 { bitfield_clone >>= 1; len += 1 }
bit_length(b) == IF b = 0 THEN 0 ELSE 1 + bit_length(b \div 2)

RECURSIVE head_icons(_, _, _, _, _, _)
\* osrs npc opcode 102, `for i in 0..len`: for every set bit of the
\* bitfield a read_smart and a `read_smart_u16()? - 1`. The subtraction on
\* a 0 panics in a build with overflow checks and wraps in one without.
head_icons(buf, pos, bitfield, i, len, def) ==
    IF i = len THEN Arm(Read(pos), def)
    ELSE IF (bitfield \div (2 ^ i)) % 2 = 0
      THEN head_icons(buf, pos, bitfield, i + 1, len, def)
    ELSE LET a == read_smart(buf, pos)
             b == read_smart(buf, a.pos)
         IN  IF ~a.ok THEN Arm(Eof(a.pos), def)
             ELSE IF ~b.ok THEN Arm(Eof(b.pos), def)
             ELSE (IF b.value = 0 THEN {Step("Overflow", b.pos, def)} ELSE {})
                    \cup head_icons(buf, b.pos, bitfield, i + 1, len, def)

OsrsNpcNoOperand == {93, 99, 107, 109, 111, 122, 123}
OsrsNpcU8 == {12, 100, 101}
OsrsNpcU16 == {13, 14, 15, 16, 18, 95, 97, 98, 103, 114, 116}
OsrsNpcU16x4 == {17, 115, 117}
OsrsNpcString == {2} \cup 30..34
OsrsNpcList == {1, 60}
OsrsNpcPairs == {40, 41}
OsrsNpcParams == {249}

osrs_npc_match_unread(buf, pos, opcode, def) ==
    IF opcode = 0 THEN {Step("Definition", pos, def)}
    ELSE IF opcode \in OsrsNpcNoOperand THEN Arm(Read(pos), def)
    ELSE IF opcode \in OsrsNpcU8 THEN Arm(read_fixed(buf, pos, 1), def)
    ELSE IF opcode \in OsrsNpcU16 THEN Arm(read_fixed(buf, pos, 2), def)
    ELSE IF opcode \in OsrsNpcU16x4 THEN Arm(read_fixed(buf, pos, 8), def)
    ELSE IF opcode \in OsrsNpcString THEN Arm(read_string(buf, pos), def)
    ELSE IF opcode \in OsrsNpcList THEN Arm(read_counted(buf, pos, 2), def)
    ELSE IF opcode \in OsrsNpcPairs THEN Arm(read_counted(buf, pos, 4), def)
    ELSE IF opcode = 102
      THEN IF Len(buf) - pos < 1 THEN Arm(Eof(pos), def)
           ELSE head_icons(buf, pos + 1, buf[pos + 1], 0,
                           bit_length(buf[pos + 1]), def)
    ELSE IF opcode = 106 THEN Arm(read_configs(buf, pos, 4), def)
    ELSE IF opcode = 118 THEN Arm(read_configs(buf, pos, 6), def)
    ELSE IF opcode \in OsrsNpcParams
      THEN Arm(read_parameters(buf, pos), def)
    ELSE Arm(Read(pos - 1), def)

\* osrs npc decode_buffer: `match opcode { ... }` after the opcode is read;
\* the last arm prints the unknown opcode and the loop goes on
osrs_npc_match(buf, pos, opcode, def) ==
    IF opcode = 0 THEN {Step("Definition", pos, def)}
    ELSE IF opcode \in OsrsNpcNoOperand THEN Arm(Read(pos), def)
    ELSE IF opcode \in OsrsNpcU8 THEN Arm(read_fixed(buf, pos, 1), def)
    ELSE IF opcode \in OsrsNpcU16 THEN Arm(read_fixed(buf, pos, 2), def)
    ELSE IF opcode \in OsrsNpcU16x4 THEN Arm(read_fixed(buf, pos, 8), def)
    ELSE IF opcode \in OsrsNpcString THEN Arm(read_string(buf, pos), def)
    ELSE IF opcode \in OsrsNpcList THEN Arm(read_counted(buf, pos, 2), def)
    ELSE IF opcode \in OsrsNpcPairs THEN Arm(read_counted(buf, pos, 4), def)
    ELSE IF opcode = 102
      THEN IF Len(buf) - pos < 1 THEN Arm(Eof(pos), def)
           ELSE head_icons(buf, pos + 1, buf[pos + 1], 0,
                           bit_length(buf[pos + 1]), def)
    ELSE IF opcode = 106 THEN Arm(read_configs(buf, pos, 4), def)
    ELSE IF opcode = 118 THEN Arm(read_configs(buf, pos, 6), def)
    ELSE IF opcode \in OsrsNpcParams
      THEN Arm(read_parameters(buf, pos), def)
    ELSE Arm(Read(pos), def)

\* Whether the decoder's match has an arm for the opcode.
InTable(d, opcode) ==
    \/ opcode = 0
    \/ d = "osrs_item" /\ opcode \in
         ItemNoOperand \cup ItemU8 \cup ItemU16 \cup ItemU16U8 \cup ItemI32
           \cup ItemString \cup ItemPairs \cup ItemStack \cup ItemParams
    \/ d = "npc" /\ opcode \in
         NpcNoOperand \cup NpcU8 \cup NpcU16 \cup NpcU16x4 \cup NpcString
           \cup NpcList \cup NpcPairs \cup NpcParams \cup {106, 118}
    \/ d = "osrs_npc" /\ opcode \in
         OsrsNpcNoOperand \cup OsrsNpcU8 \cup OsrsNpcU16 \cup OsrsNpcU16x4
           \cup OsrsNpcString \cup OsrsNpcList \cup OsrsNpcPairs
           \cup OsrsNpcParams \cup {102, 106, 118}

Decoders == {"osrs_item", "osrs_npc", "npc"}

\* The match of decoder d.
Match(d, buf, pos, opcode, def) ==
    CASE d = "osrs_item" -> item_match(buf, pos, opcode, def)
      [] d = "osrs_npc" -> osrs_npc_match(buf, pos, opcode, def)
      [] d = "npc" -> npc_match(buf, pos, opcode, def)

MaxDecode == 4
DecBytes == {0, 1, 2, 3, 100, 102, 249}
ShortInputs == UNION {[1..n -> DecBytes] : n \in 0..MaxDecode}
TestInputs ==
    {<<100, 18, 52, 0, 5, 0>>,
     <<100, 0, 1, 0, 2, 101, 0, 3, 0, 4, 0>>,
     <<109, 0, 1, 0, 2, 109, 0, 3, 0, 4, 0>>,
     <<3, 2, 65, 0, 0>>,
     <<12, 0, 0, 0, 1, 0>>,
     <<17, 0, 1, 0, 2, 0, 3, 0, 4, 0>>,
     <<23, 0, 1, 2, 0>>,
     <<40, 1, 0, 1, 0, 2, 0>>,
     <<102, 5, 1, 0, 249, 0, 1, 0>>,
     <<106, 0, 1, 0, 2, 0, 0, 9, 0>>,
     <<118, 0, 1, 0, 2, 0, 3, 1, 0, 9, 0, 9, 0>>,
     <<249, 2, 1, 0, 0, 1, 65, 0, 0, 0, 0, 2, 0, 0, 0, 7, 0>>}
Inputs == ShortInputs \cup TestInputs

InitDecode ==
    /\ decoder \in Decoders
    /\ input \in Inputs
    /\ cursor = 0
    /\ outcome = "Idle"
    /\ item_def = NoItemDef
    /\ dispatched = <<>>
    \* the other components are idle
    /\ buffer = <<>>
    /\ header_size = "Normal"
    /\ decoded = NotDecoded
    /\ header = NoHeader
    /\ expected = NotValidated
    /\ validated = Ok
    /\ archive = NoArchive
    /\ storage = NoStorage
    /\ layout = "Normal"
    /\ current_sector = 0
    /\ chunk = 0
    /\ bytes_remaining = 0
    /\ data = <<>>
    /\ visited = <<>>
    /\ read_result = NotStarted
    /\ entries = <<>>
    /\ pushed = <<>>
    /\ crcs = <<>>
    /\ valid = NotCalled
    /\ encoded = NotEncoded
    /\ cs_pc = "live"
    /\ envelope = <<>>
    /\ with_revision = FALSE
    /\ unwrapped = NotUnwrapped

\* Definition::new: BufReader::new(buffer), then decode_buffer builds the
\* initial definition (stack_ids and stack_count are None) and enters the
\* loop
New ==
    /\ outcome = "Idle"
    /\ outcome' = "Running"
    /\ item_def' = NoItemDef
    /\ UNCHANGED <<decoder, input, cursor, dispatched>>

\* One iteration of `loop { let opcode = reader.read_u8()?; match ... }`
LoopIteration ==
    /\ outcome = "Running"
    /\ IF Len(input) - cursor < 1
         THEN /\ outcome' = "UnexpectedEof"
              /\ UNCHANGED <<cursor, item_def, dispatched>>
         ELSE \E r \in Match(decoder, input, cursor + 1, input[cursor + 1],
                             item_def) :
                /\ outcome' = r.end
                /\ cursor' = r.pos
                /\ item_def' = r.def
                /\ dispatched' =
                     Append(dispatched, [opcode |-> input[cursor + 1],
                                         at |-> cursor + 1])
    /\ UNCHANGED <<decoder, input>>

ItemIteration == decoder = "osrs_item" /\ LoopIteration
OsrsNpcIteration == decoder = "osrs_npc" /\ LoopIteration
NpcIteration == decoder = "npc" /\ LoopIteration

NextDecode ==
    \/ New /\ UNCHANGED <<secVars, valVars, arcVars, csVars, cdVars>>
    \/ ItemIteration /\ UNCHANGED <<secVars, valVars, arcVars, csVars, cdVars>>
    \/ OsrsNpcIteration
         /\ UNCHANGED <<secVars, valVars, arcVars, csVars, cdVars>>
    \/ NpcIteration /\ UNCHANGED <<secVars, valVars, arcVars, csVars, cdVars>>

\* Definition::new is a sequential call: it runs until it returns or
\* panics.
SpecDecode == InitDecode /\ [][NextDecode]_vars /\ WF_vars(NextDecode)

---------------------------------------------------------------------------
(* Properties of the definition decoders (SpecDecode).                     *)

Ended == outcome \notin {"Idle", "Running"}
Last == dispatched[Len(dispatched)]
UnknownAt(i) == ~InTable(decoder, dispatched[i].opcode)

\* C16 as stated: in each of the three decoders an opcode that is not in
\* the decoder's table ends the decode with the unknown-opcode failure: it
\* is the last opcode matched, the loop does not go on and no definition is
\* returned.
UnknownOpcodeFails ==
    \A i \in DOMAIN dispatched :
        UnknownAt(i) => i = Len(dispatched) /\ outcome = "UnknownOpcode"

\* The u16 pair that follows the opcode matched at dispatched[i].
StackId(i) == U16At(input, dispatched[i].at)
StackCount(i) == U16At(input, dispatched[i].at + 2)
\* dispatched[i] is the last 100..=109 opcode of the run writing its element.
LastWrite(i) ==
    /\ dispatched[i].opcode \in ItemStack
    /\ \A j \in DOMAIN dispatched :
           j > i => dispatched[j].opcode # dispatched[i].opcode

\* C18 as stated: in the definition the osrs item decoder returns, for every
\* opcode k in 100..=109 of the buffer followed by the u16 values a and b,
\* stack_ids is Some with element k - 100 equal to a and stack_count is Some
\* with element k - 100 equal to b, also when other 100..=109 opcodes follow
\* it.
StackElementsKept ==
    (decoder = "osrs_item" /\ outcome = "Definition") =>
      \A i \in DOMAIN dispatched :
          LastWrite(i) =>
            /\ item_def.stack_ids.some
            /\ item_def.stack_ids.values[dispatched[i].opcode - 100 + 1]
                 = StackId(i)
            /\ item_def.stack_count.some
            /\ item_def.stack_count.values[dispatched[i].opcode - 100 + 1]
                 = StackCount(i)

\* C19 as stated: a decode that has ended has ended either at opcode 0 with
\* a definition or with the reader's error when the buffer ran out.
EndsWithDefinitionOrEof ==
    Ended =>
      \/ outcome = "Definition" /\ Last.opcode = 0
      \/ outcome = "UnexpectedEof"

\* C19 amended, the states: the reader never passes the end of the buffer,
\* and a decode that has ended has ended at opcode 0 with a definition,
\* with the reader's error, with the panic of an opcode outside the table
\* (osrs item and legacy npc decoders) or with the panic of an overflow in
\* opcode 102 (osrs npc decoder).
DecodeEnds ==
    /\ cursor <= Len(input)
    /\ Len(dispatched) <= cursor
    /\ Ended =>
         \/ outcome = "Definition" /\ Last.opcode = 0 /\ cursor = Last.at
         \/ outcome = "UnexpectedEof"
              /\ \A i \in DOMAIN dispatched : dispatched[i].opcode # 0
         \/ outcome = "UnknownOpcode" /\ decoder \in {"osrs_item", "npc"}
              /\ UnknownAt(Len(dispatched))
         \/ outcome = "Overflow" /\ decoder = "osrs_npc" /\ Last.opcode = 102

\* C19 amended, the steps: every loop iteration that gets an opcode consumes
\* at least that byte, also the one matching an opcode outside the table.
IterationConsumes ==
    (outcome = "Running" /\ dispatched' # dispatched) => cursor' > cursor

\* C19 amended: on every finite buffer each decoder's decode_buffer ends:
\* every iteration that gets an opcode consumes at least that byte, and the
\* decode ends at opcode 0 with a definition, with the reader's error when
\* the buffer runs out, or with a panic (an opcode outside the table in the
\* osrs item and legacy npc decoders, an overflow in opcode 102 of the osrs
\* npc decoder, where an opcode outside the table does not stop the loop).
DecodeTerminates ==
    /\ []DecodeEnds
    /\ [][IterationConsumes]_vars
    /\ <>Ended

DecodeTerminatesWitness ==
    /\ decoder = "osrs_npc"
    /\ outcome = "Definition"
    /\ input = <<3, 2, 65, 0, 0>>
    /\ UnknownAt(1)
    /\ cursor = Len(input)

===========================================================================
